---- MODULE Spec2Model ----
(***************************************************************************)
(* CalendarToSlack: the Slack event webhook (request authentication, event *)
(* routing, command interpreter and the status-mapping settings it         *)
(* mutates).                                                               *)
(*                                                                         *)
(* Strings are sequences of fragments.  Text that the program inspects     *)
(* (tokens, header values, meeting names) is held one character per        *)
(* fragment, so split, toLowerCase and the regular expression work on      *)
(* characters; literal replies are held as one fragment.                   *)
(***************************************************************************)
EXTENDS Integers, Sequences, FiniteSets, TLC

VARIABLES
  store,      \* the settings store: what getSettingsForUsers answers for the user
  last,       \* the command dispatched for the request being answered
  event,      \* the request: headers and raw body
  clock,      \* new Date(), in seconds
  origin,     \* how the request was made: what was signed, what was altered
  pc,         \* where the handler of the request stands
  calls,      \* the collaborator calls of the request, in order
  validated,  \* what validateSlackRequest answered
  response,   \* the HTTP response of the request
  local       \* the local variables of the handler

cmdVars == <<store, last>>

reqVars == <<event, clock, origin>>

runVars == <<pc, calls, validated, response, local>>

vars == <<store, last, event, clock, origin, pc, calls, validated, response, local>>

-----------------------------------------------------------------------------
(* JavaScript values *)

\* the value `undefined` where a string may stand
undefined == <<"<undefined>">>

\* the value `null` where an object may stand
null == [isNull |-> TRUE]

\* !v for a string or undefined
Falsy(v) == v = undefined \/ v = <<>>

\* ${v} in a template literal
ToStr(v) == IF v = undefined THEN <<"undefined">> ELSE v

Has(obj, field) == field \in DOMAIN obj

SetField(obj, field, value) ==
  [k \in DOMAIN obj \cup {field} |-> IF k = field THEN value ELSE obj[k]]

UpperCaseChars == <<"A", "B", "C", "D", "E", "F", "G", "H", "I", "J", "K", "L", "M", "N", "O", "P", "Q", "R", "S", "T", "U", "V", "W", "X", "Y", "Z">>

LowerCaseChars == <<"a", "b", "c", "d", "e", "f", "g", "h", "i", "j", "k", "l", "m", "n", "o", "p", "q", "r", "s", "t", "u", "v", "w", "x", "y", "z">>

ToLowerChar(c) ==
  IF \E i \in 1..26 : UpperCaseChars[i] = c
  THEN LowerCaseChars[CHOOSE i \in 1..26 : UpperCaseChars[i] = c]
  ELSE c

toLowerCase(s) == IF s = <<>> THEN <<>> ELSE [i \in 1..Len(s) |-> ToLowerChar(s[i])]

IndexOf(s, c) ==
  IF \E i \in 1..Len(s) : s[i] = c
  THEN CHOOSE i \in 1..Len(s) : s[i] = c /\ \A j \in 1..(i - 1) : s[j] # c
  ELSE 0

RECURSIVE split(_, _)
split(s, sep) ==
  LET i == IndexOf(s, sep)
  IN  IF i = 0 THEN <<s>>
      ELSE <<SubSeq(s, 1, i - 1)>> \o split(SubSeq(s, i + 1, Len(s)), sep)

\* Array.prototype.toString: the elements joined by ","
RECURSIVE JoinComma(_)
JoinComma(arr) ==
  IF arr = <<>> THEN <<>>
  ELSE IF Len(arr) = 1 THEN arr[1]
  ELSE arr[1] \o <<",">> \o JoinComma(Tail(arr))

-----------------------------------------------------------------------------
(* Property names *)

K_meeting == <<"m", "e", "e", "t", "i", "n", "g">>
K_message == <<"m", "e", "s", "s", "a", "g", "e">>
K_emoji == <<"e", "m", "o", "j", "i">>
K_constructor == <<"c", "o", "n", "s", "t", "r", "u", "c", "t", "o", "r">>
K_defineGetter == <<"_", "_", "d", "e", "f", "i", "n", "e", "G", "e", "t", "t", "e", "r", "_", "_">>
K_defineSetter == <<"_", "_", "d", "e", "f", "i", "n", "e", "S", "e", "t", "t", "e", "r", "_", "_">>
K_hasOwnProperty == <<"h", "a", "s", "O", "w", "n", "P", "r", "o", "p", "e", "r", "t", "y">>
K_lookupGetter == <<"_", "_", "l", "o", "o", "k", "u", "p", "G", "e", "t", "t", "e", "r", "_", "_">>
K_lookupSetter == <<"_", "_", "l", "o", "o", "k", "u", "p", "S", "e", "t", "t", "e", "r", "_", "_">>
K_isPrototypeOf == <<"i", "s", "P", "r", "o", "t", "o", "t", "y", "p", "e", "O", "f">>
K_propertyIsEnumerable == <<"p", "r", "o", "p", "e", "r", "t", "y", "I", "s", "E", "n", "u", "m", "e", "r", "a", "b", "l", "e">>
K_toString == <<"t", "o", "S", "t", "r", "i", "n", "g">>
K_valueOf == <<"v", "a", "l", "u", "e", "O", "f">>
K_proto == <<"_", "_", "p", "r", "o", "t", "o", "_", "_">>
K_toLocaleString == <<"t", "o", "L", "o", "c", "a", "l", "e", "S", "t", "r", "i", "n", "g">>

\* the properties every object literal inherits from Object.prototype
ObjectPrototypeKeys ==
  {K_constructor, K_defineGetter, K_defineSetter, K_hasOwnProperty,
   K_lookupGetter, K_lookupSetter, K_isPrototypeOf, K_propertyIsEnumerable,
   K_toString, K_valueOf, K_proto, K_toLocaleString}

\* key in obj
In(key, obj) == key \in DOMAIN obj \/ key \in ObjectPrototypeKeys

\* obj[key] = value, for a string or undefined value (the __proto__ setter
\* ignores a value that is no object)
Assign(obj, key, value) == IF key = K_proto THEN obj ELSE SetField(obj, key, value)

-----------------------------------------------------------------------------
(* Command handlers *)

\* the character U+0060, which delimits code spans in the replies
Backtick == "&#96;"

serializeMapping(m) ==
  <<"\n">> \o ToStr(m.slackStatus.emoji) \o <<" ", Backtick>> \o ToStr(m.calendarText)
    \o <<Backtick, " ">>
    \o (IF Falsy(m.slackStatus.text) THEN <<>>
        ELSE <<"uses status ", Backtick>> \o m.slackStatus.text \o <<Backtick>>)

serializeStatusMappings(userSettings) ==
  IF Has(userSettings, "statusMappings") /\ userSettings.statusMappings # <<>>
  THEN [i \in 1..Len(userSettings.statusMappings) |->
          serializeMapping(userSettings.statusMappings[i])]
  ELSE <<>>

handleShow(db, userSettings, args) ==
  LET serialized == serializeStatusMappings(userSettings)
  IN  [db |-> db, userSettings |-> userSettings, calls |-> <<>>,
       message |-> IF Len(serialized) # 0
                   THEN <<"Here's what I've got for you:">> \o JoinComma(serialized)
                   ELSE <<"You don't have any status mappings yet. Try ", Backtick, "set", Backtick>>]

\* the loop of handleSet and handleSetDefault over the arguments
RECURSIVE parseArgs(_, _)
parseArgs(defaults, args) ==
  IF args = <<>> THEN defaults
  ELSE LET parts == split(Head(args), "=")
           key == parts[1]
           value == IF Len(parts) >= 2 THEN parts[2] ELSE undefined
       IN  parseArgs(IF In(key, defaults) THEN Assign(defaults, key, value) ELSE defaults,
                     Tail(args))

SetDefaults == (K_meeting :> <<>>) @@ (K_message :> <<>>) @@ (K_emoji :> <<>>)

SetDefaultDefaults == (K_message :> <<>>) @@ (K_emoji :> <<>>)

MsgMustSpecifyMeeting ==
  <<"You must specify a meeting using ", Backtick, "meeting=\"My Meeting\"", Backtick, ".">>

\* Array.prototype.find over statusMappings, as the index found (0: none)
findExistingMeeting_caseSensitive(statusMappings, meeting) ==
  IF \E i \in 1..Len(statusMappings) : statusMappings[i].calendarText = meeting
  THEN CHOOSE i \in 1..Len(statusMappings) :
         /\ statusMappings[i].calendarText = meeting
         /\ \A j \in 1..(i - 1) : statusMappings[j].calendarText # meeting
  ELSE 0

findExistingMeeting(statusMappings, meeting) ==
  LET Hit(i) == toLowerCase(statusMappings[i].calendarText) = toLowerCase(meeting)
  IN  IF \E i \in 1..Len(statusMappings) : Hit(i)
      THEN CHOOSE i \in 1..Len(statusMappings) : Hit(i) /\ \A j \in 1..(i - 1) : ~Hit(j)
      ELSE 0

meetingMissing_onlyUndefined(defaults) == defaults[K_meeting] = undefined

\* !defaults.meeting
meetingMissing(defaults) == Falsy(defaults[K_meeting])

slackStatusOf(defaults) ==
  [text |-> IF Falsy(defaults[K_message]) THEN defaults[K_meeting] ELSE defaults[K_message],
   emoji |-> defaults[K_emoji]]

writeMapping_replaceEntry(statusMappings, existingMeeting, meeting, slackStatus) ==
  IF existingMeeting # 0
  THEN [statusMappings EXCEPT
          ![existingMeeting] = [calendarText |-> meeting, slackStatus |-> slackStatus]]
  ELSE Append(statusMappings, [calendarText |-> meeting, slackStatus |-> slackStatus])

writeMapping(statusMappings, existingMeeting, meeting, slackStatus) ==
  IF existingMeeting # 0
  THEN [statusMappings EXCEPT ![existingMeeting].slackStatus = slackStatus]
  ELSE Append(statusMappings, [calendarText |-> meeting, slackStatus |-> slackStatus])

\* services/dynamo: the store keeps the mappings of the settings handed to it
\* and answers with the persisted settings
upsertStatusMappings(db, userSettings) ==
  <<SetField(IF db = <<>> THEN userSettings ELSE db[1],
             "statusMappings", userSettings.statusMappings)>>

\* services/dynamo: the store keeps the default status of the settings handed
\* to it
upsertDefaultStatus(db, userSettings) ==
  <<SetField(IF db = <<>> THEN userSettings ELSE db[1],
             "defaultStatus", userSettings.defaultStatus)>>

handleSet(db, userSettings, args) ==
  LET defaults == parseArgs(SetDefaults, args)
  IN  IF meetingMissing(defaults)
      THEN [db |-> db, userSettings |-> userSettings, calls |-> <<>>,
            message |-> MsgMustSpecifyMeeting]
      ELSE LET initialised == IF Has(userSettings, "statusMappings") THEN userSettings
                              ELSE SetField(userSettings, "statusMappings", <<>>)
               existingMeeting == findExistingMeeting(initialised.statusMappings,
                                                      defaults[K_meeting])
               slackStatus == slackStatusOf(defaults)
               mutated == SetField(initialised, "statusMappings",
                            writeMapping(initialised.statusMappings, existingMeeting,
                                         defaults[K_meeting], slackStatus))
               persisted == upsertStatusMappings(db, mutated)
               serialized == serializeStatusMappings(persisted[1])
           IN  [db |-> persisted, userSettings |-> mutated,
                calls |-> <<"upsertStatusMappings">>,
                message |-> <<"Here's what I got: ">> \o JoinComma(serialized)]

handleRemove(db, userSettings, args) ==
  [db |-> db, userSettings |-> userSettings, calls |-> <<>>,
   message |-> <<"Not implemented">>]

MsgSetDefaultGuidance ==
  <<"Please set a default ", Backtick, "message", Backtick, " and/or ", Backtick, "emoji",
    Backtick, ".">>

defaultStatusOf_merge(userSettings, message, emoji) ==
  LET old == IF Has(userSettings, "defaultStatus") /\ userSettings.defaultStatus # null
             THEN userSettings.defaultStatus
             ELSE [text |-> <<>>, emoji |-> <<>>]
  IN  [text |-> IF Falsy(message) THEN old.text ELSE message,
       emoji |-> IF Falsy(emoji) THEN old.emoji ELSE emoji]

\* { text: message, emoji: emoji }
defaultStatusOf(userSettings, message, emoji) == [text |-> message, emoji |-> emoji]

handleSetDefault(db, userSettings, args) ==
  LET defaults == parseArgs(SetDefaultDefaults, args)
      message == defaults[K_message]
      emoji == defaults[K_emoji]
  IN  IF Falsy(message) /\ Falsy(emoji)
      THEN [db |-> db, userSettings |-> userSettings, calls |-> <<>>,
            message |-> MsgSetDefaultGuidance]
      ELSE LET mutated == SetField(userSettings, "defaultStatus",
                                   defaultStatusOf(userSettings, message, emoji))
           IN  [db |-> upsertDefaultStatus(db, mutated), userSettings |-> mutated,
                calls |-> <<"upsertDefaultStatus">>,
                message |-> <<"Your default status is ">> \o ToStr(emoji) \o <<" ", Backtick>>
                              \o ToStr(message) \o <<Backtick, ".">>]

MsgDefaultRemoved == <<"Your default status has been removed.">>

handleRemoveDefault_onlyWhenSet(db, userSettings, args) ==
  IF Has(userSettings, "defaultStatus")
  THEN LET mutated == SetField(userSettings, "defaultStatus", null)
       IN  [db |-> upsertDefaultStatus(db, mutated), userSettings |-> mutated,
            calls |-> <<"upsertDefaultStatus">>, message |-> MsgDefaultRemoved]
  ELSE [db |-> db, userSettings |-> userSettings, calls |-> <<>>,
        message |-> MsgDefaultRemoved]

handleRemoveDefault(db, userSettings, args) ==
  LET mutated == SetField(userSettings, "defaultStatus", null)
  IN  [db |-> upsertDefaultStatus(db, mutated), userSettings |-> mutated,
       calls |-> <<"upsertDefaultStatus">>,
       message |-> MsgDefaultRemoved]

-----------------------------------------------------------------------------
(* Request authentication *)

FIVE_MIN_IN_SEC == 300

\* a JavaScript number: an integer or NaN
NaN == [nan |-> TRUE, val |-> 0]

Num(n) == [nan |-> FALSE, val |-> n]

DigitChars == <<"0", "1", "2", "3", "4", "5", "6", "7", "8", "9">>

IsDigit(c) == \E i \in 1..10 : DigitChars[i] = c

DigitValue(c) == (CHOOSE i \in 1..10 : DigitChars[i] = c) - 1

RECURSIVE DigitsValue(_)
DigitsValue(s) ==
  IF s = <<>> THEN 0
  ELSE 10 * DigitsValue(SubSeq(s, 1, Len(s) - 1)) + DigitValue(s[Len(s)])

AllDigits(s) == Len(s) >= 1 /\ \A i \in 1..Len(s) : IsDigit(s[i])

\* +v, for v undefined or a string of digits, signs and letters (the header
\* values of the model hold no white space, ".", "e" or "x")
ToNumber(v) ==
  IF v = undefined THEN NaN
  ELSE IF v = <<>> THEN Num(0)
  ELSE IF AllDigits(v) THEN Num(DigitsValue(v))
  ELSE IF v[1] = "+" /\ AllDigits(Tail(v)) THEN Num(DigitsValue(Tail(v)))
  ELSE IF v[1] = "-" /\ AllDigits(Tail(v)) THEN Num(0 - DigitsValue(Tail(v)))
  ELSE NaN

RECURSIVE NatToStr(_)
NatToStr(n) ==
  IF n < 10 THEN <<DigitChars[n + 1]>>
  ELSE NatToStr(n \div 10) \o <<DigitChars[(n % 10) + 1]>>

\* ${n} for a number
NumToStr(n) ==
  IF n.nan THEN <<"NaN">>
  ELSE IF n.val < 0 THEN <<"-">> \o NatToStr(0 - n.val)
  ELSE NatToStr(n.val)

Abs(n) == IF n < 0 THEN 0 - n ELSE n

validateTimestamp_inclusive(currentTimeInSec, slackRequestTimestampInSec) ==
  /\ ~slackRequestTimestampInSec.nan
  /\ Abs(currentTimeInSec - slackRequestTimestampInSec.val) <= FIVE_MIN_IN_SEC

validateTimestamp(currentTimeInSec, slackRequestTimestampInSec) ==
  /\ ~slackRequestTimestampInSec.nan
  /\ Abs(currentTimeInSec - slackRequestTimestampInSec.val) < FIVE_MIN_IN_SEC

\* the characters of the header values and bodies of the model, each with
\* the two hex digits of its code
CharCodes ==
  {
    <<"0", "3", "0">>, <<"1", "3", "1">>, <<"2", "3", "2">>, <<"3", "3", "3">>,
    <<"4", "3", "4">>, <<"5", "3", "5">>, <<"6", "3", "6">>, <<"7", "3", "7">>,
    <<"8", "3", "8">>, <<"9", "3", "9">>, <<"v", "7", "6">>, <<"=", "3", "d">>,
    <<":", "3", "a">>, <<"+", "2", "b">>, <<"-", "2", "d">>, <<"a", "6", "1">>,
    <<"k", "6", "b">>, <<"u", "7", "5">>, <<"e", "6", "5">>, <<"x", "7", "8">>,
    <<"z", "7", "a">>
  }

RECURSIVE HexOf(_)
HexOf(s) ==
  IF s = <<>> THEN <<>>
  ELSE LET code == CHOOSE t \in CharCodes : t[1] = Head(s)
       IN  <<code[2], code[3]>> \o HexOf(Tail(s))

\* the longest key and message the digest below tells apart
MaxKeyLen == 1

MaxBaseLen == 10

DigestLen == 2 * (MaxKeyLen + 1 + MaxBaseLen)

\* createHmac('sha256', key).update(message).digest('hex'), as an injective
\* function of key and message into hex strings of one length: the codes of
\* the key, "00", the codes of the message, filled up with "0"
HmacSha256Hex(key, message) ==
  LET codes == HexOf(key) \o <<"0", "0">> \o HexOf(message)
  IN  IF Len(codes) >= DigestLen THEN codes
      ELSE codes \o [i \in 1..(DigestLen - Len(codes)) |-> "0"]

\* crypto.timingSafeEqual(Buffer.from(a, 'utf8'), Buffer.from(b, 'utf8'))
timingSafeEqual(a, b) ==
  IF b = undefined THEN "throws"
  ELSE IF Len(a) # Len(b) THEN "throws"
  ELSE IF a = b THEN "true" ELSE "false"

H_Timestamp == "X-Slack-Request-Timestamp"

H_Signature == "X-Slack-Signature"

\* event.headers[name]
Header(evt, name) ==
  IF name \in DOMAIN evt.headers THEN evt.headers[name] ELSE undefined

SecretCall == "getSlackSecretWithKey:signing-secret"

\* secret is what getSlackSecretWithKey('signing-secret') answers: the
\* secret, or a failure
validateSlackRequest(currentTimeInSec, evt, secret) ==
  LET requestTimestamp == ToNumber(Header(evt, H_Timestamp))
  IN  IF ~validateTimestamp(currentTimeInSec, requestTimestamp)
      THEN [result |-> "false", calls |-> <<>>]
      ELSE IF ~secret.ok
      THEN [result |-> "throws", calls |-> <<SecretCall>>]
      ELSE IF Header(evt, H_Signature) = undefined
      THEN [result |-> "throws", calls |-> <<SecretCall>>]
      ELSE LET parts == split(Header(evt, H_Signature), "=")
               version == parts[1]
               slackHash == IF Len(parts) >= 2 THEN parts[2] ELSE undefined
               calculatedSignature ==
                 HmacSha256Hex(secret.value,
                               version \o <<":">> \o NumToStr(requestTimestamp)
                                 \o <<":">> \o evt.body)
           IN  [result |-> timingSafeEqual(calculatedSignature, slackHash),
                calls |-> <<SecretCall>>]

-----------------------------------------------------------------------------
(* Tokenizer and dispatch *)

K_show == <<"s", "h", "o", "w">>
K_set == <<"s", "e", "t">>
K_remove == <<"r", "e", "m", "o", "v", "e">>
K_set_default == <<"s", "e", "t", "-", "d", "e", "f", "a", "u", "l", "t">>
K_remove_default == <<"r", "e", "m", "o", "v", "e", "-", "d", "e", "f", "a", "u", "l", "t">>

\* \w
IsWordChar(c) ==
  \/ \E i \in 1..26 : UpperCaseChars[i] = c \/ LowerCaseChars[i] = c
  \/ IsDigit(c)
  \/ c = "_"

\* [^""]
NotQuote(c) == c # "\""

\* [^ """]
NotSpaceNorQuote(c) == c # " " /\ c # "\""

\* where the longest run of characters satisfying Ok that starts at p ends:
\* the index after its last character
RunEnd(text, p, Ok(_)) ==
  LET stops == {i \in p..Len(text) : ~Ok(text[i])}
  IN  IF stops = {} THEN Len(text) + 1
      ELSE CHOOSE i \in stops : \A j \in stops : i <= j

\* [\w]+=[""][^""]+[""] matched at p: the index after the match, 0 for none
QuotedTokenEnd(text, p) ==
  LET w == RunEnd(text, p, IsWordChar)
  IN  IF w > p /\ w + 1 <= Len(text) /\ text[w] = "=" /\ text[w + 1] = "\""
      THEN LET q == RunEnd(text, w + 2, NotQuote)
           IN  IF q > w + 2 /\ q <= Len(text) THEN q + 1 ELSE 0
      ELSE 0

\* command.match(/[\w]+=[""][^""]+[""]|[^ """]+/g) || [], scanning from p
RECURSIVE matchFrom(_, _)
matchFrom(text, p) ==
  IF p > Len(text) THEN <<>>
  ELSE IF QuotedTokenEnd(text, p) # 0
  THEN <<SubSeq(text, p, QuotedTokenEnd(text, p) - 1)>>
         \o matchFrom(text, QuotedTokenEnd(text, p))
  ELSE IF RunEnd(text, p, NotSpaceNorQuote) > p
  THEN <<SubSeq(text, p, RunEnd(text, p, NotSpaceNorQuote) - 1)>>
         \o matchFrom(text, RunEnd(text, p, NotSpaceNorQuote))
  ELSE matchFrom(text, p + 1)

tokenize(text) == matchFrom(text, 1)

\* the keys of commandHandlerMap
CommandNames == {K_show, K_set, K_remove, K_set_default, K_remove_default}

\* subcommand in commandHandlerMap
InCommandHandlerMap(subcommand) ==
  subcommand \in CommandNames \/ subcommand \in ObjectPrototypeKeys

\* commandHandlerMap[subcommand](userSettings[0], args), applied to the
\* store db at the time the handler runs.  threw: the call raised a
\* TypeError.  A member inherited from Object.prototype answers no string;
\* its answer is held as one fragment naming it.
runCommand(subcommand, db, userSettings, args) ==
  LET Plain(message) ==
        [db |-> db, userSettings |-> userSettings, calls |-> <<>>, message |-> message,
         threw |-> FALSE]
      Ran(r) == r @@ [threw |-> FALSE]
  IN  CASE subcommand = K_show -> Ran(handleShow(db, userSettings, args))
        [] subcommand = K_set -> Ran(handleSet(db, userSettings, args))
        [] subcommand = K_remove -> Ran(handleRemove(db, userSettings, args))
        [] subcommand = K_set_default -> Ran(handleSetDefault(db, userSettings, args))
        [] subcommand = K_remove_default -> Ran(handleRemoveDefault(db, userSettings, args))
        [] subcommand = K_constructor -> Plain(<<"<the userSettings object>">>)
        [] subcommand \in {K_toString, K_toLocaleString} -> Plain(<<"[object Object]">>)
        [] subcommand = K_valueOf -> Plain(<<"<the commandHandlerMap object>">>)
        [] subcommand \in {K_hasOwnProperty, K_isPrototypeOf, K_propertyIsEnumerable}
             -> Plain(<<"<false>">>)
        [] subcommand \in {K_lookupGetter, K_lookupSetter} -> Plain(undefined)
        [] OTHER -> Plain(undefined) @@ [threw |-> TRUE]

MsgProfileRetry == <<"Something went wrong fetching your user profile. Maybe try again?">>

slackInstallUrl == <<"<slackInstallUrl()>">>

MsgAuthorize ==
  <<"Hello :wave:\n\nYou need to authorize me before we can do anything else: ">>
    \o slackInstallUrl

MsgHelp ==
  <<":shrug: Maybe try one of these:\n  - ", Backtick, "help", Backtick, "\n  - ", Backtick,
    "show", Backtick, "\n  - ", Backtick, "set", Backtick, "\n  - ", Backtick, "set-default",
    Backtick, "\n  - ", Backtick, "remove", Backtick, "\n  - ", Backtick, "remove-default",
    Backtick>>

-----------------------------------------------------------------------------
(* The command interpreter: the commands of one authorized user, one request
   at a time.  store is what getSettingsForUsers answers for the user; last
   records the command of the request being answered (its arguments, the
   userSettings object before and after the handler ran, the reply and the
   store calls), and is cleared when the request has been answered. *)

MaxArgs == 2

V_Ab == <<"A", "b">>
V_ab == <<"a", "b">>
V_C == <<"C">>
V_M == <<"M">>
V_E == <<"E">>

Eq == <<"=">>

\* argument tokens as the tokenizer delivers them: no space, no quote
MappingTokens ==
  {K_meeting, K_meeting \o Eq, K_meeting \o Eq \o V_Ab, K_meeting \o Eq \o V_ab,
   K_meeting \o Eq \o V_C, K_message, K_message \o Eq \o V_M,
   K_emoji, K_emoji \o Eq \o V_E}

DefaultTokens ==
  {K_message, K_message \o Eq, K_message \o Eq \o V_M,
   K_emoji, K_emoji \o Eq, K_emoji \o Eq \o V_E,
   K_meeting \o Eq \o V_Ab, K_constructor \o Eq \o V_C}

ArgListsOver(tokens) == UNION {[1..n -> tokens] : n \in 0..MaxArgs}

Authorized == <<"x", "o", "x", "p">>

NoCommand ==
  [cmd |-> "none", args |-> <<>>, before |-> [slackToken |-> Authorized],
   after |-> [slackToken |-> Authorized], message |-> <<>>, calls |-> <<>>]

Idle == last = NoCommand

NoEvent == [headers |-> <<>>, body |-> <<>>]

NoOrigin == [kind |-> "none"]

NoResponse == [statusCode |-> 0, body |-> <<>>]

NoLocal == [none |-> TRUE]

\* no request is being authenticated or routed
NoRequest ==
  /\ event = NoEvent
  /\ clock = 0
  /\ origin = NoOrigin
  /\ pc = "commands"
  /\ calls = <<>>
  /\ validated = "none"
  /\ response = NoResponse
  /\ local = NoLocal

Run(cmd, args, r) ==
  /\ UNCHANGED <<reqVars, runVars>>
  /\ store' = r.db
  /\ last' = [cmd |-> cmd, args |-> args, before |-> store[1],
              after |-> r.userSettings, message |-> r.message, calls |-> r.calls]

Show ==
  /\ Idle
  /\ \E args \in ArgListsOver(MappingTokens) :
       Run("show", args, handleShow(store, store[1], args))

Set ==
  /\ Idle
  /\ \E args \in ArgListsOver(MappingTokens) :
       Run("set", args, handleSet(store, store[1], args))

Remove ==
  /\ Idle
  /\ \E args \in ArgListsOver(MappingTokens) :
       Run("remove", args, handleRemove(store, store[1], args))

SetDefault ==
  /\ Idle
  /\ \E args \in ArgListsOver(DefaultTokens) :
       Run("set-default", args, handleSetDefault(store, store[1], args))

RemoveDefault ==
  /\ Idle
  /\ \E args \in ArgListsOver(DefaultTokens) :
       Run("remove-default", args, handleRemoveDefault(store, store[1], args))

\* the request is answered; the next one may arrive
Responded ==
  /\ ~Idle
  /\ last' = NoCommand
  /\ UNCHANGED <<store, reqVars, runVars>>

\* the mapping commands
Init ==
  /\ store \in {<<[slackToken |-> Authorized]>>,
                <<[slackToken |-> Authorized, statusMappings |-> <<>>]>>}
  /\ last = NoCommand
  /\ NoRequest

Next == Show \/ Set \/ Remove \/ Responded

Spec == Init /\ [][Next]_vars

\* the default-status commands
SomeMapping == [calendarText |-> V_Ab, slackStatus |-> [text |-> V_M, emoji |-> V_E]]

InitDefault ==
  /\ store \in {<<[slackToken |-> Authorized]>>,
                <<[slackToken |-> Authorized, statusMappings |-> <<SomeMapping>>]>>}
  /\ last = NoCommand
  /\ NoRequest

NextDefault == SetDefault \/ RemoveDefault \/ Responded

SpecDefault == InitDefault /\ [][NextDefault]_vars

-----------------------------------------------------------------------------
(* The authenticator alone: a request is made, perhaps altered in one byte
   on its way, and validateSlackRequest answers. *)

Now == 1000

SigningSecret == <<"k">>

OtherSecret == <<"z">>

V0 == <<"v", "0">>

SentBodies == {<<"u">>, <<"e", "x">>}

\* what a sender puts in the timestamp header: nothing, an empty or a
\* non-numeric value, or the seconds of a clock around now
SentTimestamps ==
  {undefined, <<>>, <<"a">>}
    \cup {NumToStr(Num(Now + d)) : d \in {0 - 300, 0 - 299, 0, 299, 300}}

\* the signature header a sender holding key computes
SignatureFor(key, timestamp, body) ==
  V0 \o <<"=">>
    \o HmacSha256Hex(key, V0 \o <<":">> \o (IF timestamp = undefined THEN <<>> ELSE timestamp)
                            \o <<":">> \o body)

MakeEvent(timestamp, signature, body) ==
  [headers |->
     [h \in (IF timestamp = undefined THEN {} ELSE {H_Timestamp})
          \cup (IF signature = undefined THEN {} ELSE {H_Signature}) |->
        IF h = H_Timestamp THEN timestamp ELSE signature],
   body |-> body]

\* the bytes put in place of one byte of a request
TamperChars == {"0", "1", "a", "="}

SecretOutcomes == {[ok |-> TRUE, value |-> SigningSecret], [ok |-> FALSE]}

InitAuth ==
  /\ store = <<>>
  /\ last = NoCommand
  /\ clock = Now
  /\ \E timestamp \in SentTimestamps, body \in SentBodies,
        signer \in {"slack", "other", "unsigned"} :
       /\ origin = [kind |-> "sent", timestamp |-> timestamp, body |-> body,
                    signer |-> signer, altered |-> "nothing"]
       /\ event = MakeEvent(timestamp,
                            CASE signer = "slack" -> SignatureFor(SigningSecret, timestamp, body)
                              [] signer = "other" -> SignatureFor(OtherSecret, timestamp, body)
                              [] OTHER -> undefined,
                            body)
  /\ pc = "received"
  /\ calls = <<>>
  /\ validated = "none"
  /\ response = NoResponse
  /\ local = NoLocal

\* one byte of the signature header, of the timestamp header or of the body
\* is replaced by another
AlterHeader(name) ==
  /\ pc = "received"
  /\ origin.altered = "nothing"
  /\ name \in DOMAIN event.headers
  /\ \E i \in 1..Len(event.headers[name]), c \in TamperChars :
       /\ event.headers[name][i] # c
       /\ event' = [event EXCEPT !.headers[name][i] = c]
  /\ origin' = [origin EXCEPT !.altered = name]
  /\ UNCHANGED <<cmdVars, clock, runVars>>

AlterSignature == AlterHeader(H_Signature)

AlterTimestamp == AlterHeader(H_Timestamp)

AlterBody ==
  /\ pc = "received"
  /\ origin.altered = "nothing"
  /\ \E i \in 1..Len(event.body), c \in TamperChars :
       /\ event.body[i] # c
       /\ event' = [event EXCEPT !.body[i] = c]
  /\ origin' = [origin EXCEPT !.altered = "body"]
  /\ UNCHANGED <<cmdVars, clock, runVars>>

\* await validateSlackRequest(event)
Validate ==
  /\ pc = "received"
  /\ \E secret \in SecretOutcomes :
       LET r == validateSlackRequest(clock, event, secret)
       IN  /\ validated' = r.result
           /\ calls' = r.calls
           /\ local' = [secret |-> secret]
  /\ pc' = "validated"
  /\ UNCHANGED <<cmdVars, reqVars, response>>

NextAuth == AlterSignature \/ AlterTimestamp \/ AlterBody \/ Validate

SpecAuth == InitAuth /\ [][NextAuth]_vars

-----------------------------------------------------------------------------
(* The handler of one request, one await at a time.  Raw bodies are short
   texts; Payloads gives the JSON document each of them stands for. *)

Channel == <<"D", "1">>

User == <<"U", "1">>

MessageEvent(text) ==
  [type |-> "message", channel_type |-> "im", user |-> User, text |-> text,
   channel |-> Channel]

V_TeamSync == <<"T", "e", "a", "m", " ", "S", "y", "n", "c">>

Texts ==
  <<K_show,
    K_set \o <<" ">> \o K_meeting \o Eq \o V_Ab \o <<" ">> \o K_emoji \o Eq \o V_E,
    K_set,
    K_set_default \o <<" ">> \o K_message \o Eq \o V_M,
    K_remove_default,
    K_remove \o <<" ">> \o K_meeting \o Eq \o V_Ab,
    <<"h", "e", "l", "p">>,
    <<>>,
    <<"S", "h", "o", "w">>,
    K_constructor,
    K_toString,
    K_set \o <<" ">> \o K_meeting \o Eq \o <<"\"">> \o V_TeamSync \o <<"\"", " ">>
      \o K_emoji \o Eq \o V_E>>

\* the second character of the raw body that carries each text
TextKeys == DigitChars \o <<"+", "-", ":", "=", "e">>

\* raw body -> JSON.parse(raw body); a raw body outside the table is no JSON
Payloads ==
  (<<"u">> :> [type |-> "url_verification", challenge |-> <<"c", "h">>])
    @@ (<<"u", "0">> :> [type |-> "url_verification", challenge |-> <<"c", "\"", "\\">>])
    @@ (<<"u", "1">> :> [type |-> "url_verification"])
    @@ (<<"a">> :> [type |-> "app_rate_limited"])
    @@ (<<"z">> :> [type |-> "<undefined>"])
    @@ (<<"e", "a">> :> [type |-> "event_callback",
                          event |-> [MessageEvent(K_show) EXCEPT !.type = "reaction_added"]])
    @@ (<<"e", "k">> :> [type |-> "event_callback",
                          event |-> [MessageEvent(K_show) EXCEPT !.channel_type = "channel"]])
    @@ (<<"e", "u">> :> [type |-> "event_callback",
                          event |-> MessageEvent(K_show) @@ [subtype |-> "bot_message"]])
    @@ (<<"e", "v">> :> [type |-> "event_callback",
                          event |-> [f \in {"type", "channel_type", "text", "channel"} |->
                                       MessageEvent(K_show)[f]]])
    @@ (<<"e", "z">> :> [type |-> "event_callback",
                          event |-> [MessageEvent(K_show) EXCEPT !.user = <<>>]])
    @@ (<<"e", "x">> :> [type |-> "event_callback",
                          event |-> MessageEvent(K_show) @@ [subtype |-> "file_share"]])
    @@ [raw \in {<<"e", TextKeys[i]>> : i \in 1..Len(Texts)} |->
          [type |-> "event_callback",
           event |-> MessageEvent(Texts[(CHOOSE i \in 1..Len(Texts) : TextKeys[i] = raw[2])])]]

NotJson == <<"x">>

\* the business-logic collaborators
BotTokenCall == "getSlackSecretWithKey:bot-token"

\* !(await validateSlackRequest(event))
requestRejected_never(result) == FALSE

requestRejected(result) == result = "false"

InvalidResponse ==
  [statusCode |-> 400, body |-> <<"{\"error\":\"Request was invalid\"}">>]

\* { statusCode: 200, body: JSON.stringify(responseBody) }
OkResponse(body) == [statusCode |-> 200, body |-> body]

EmptyBody == <<"{}">>

\* JSON.stringify of the characters of a string: a quote and a backslash
\* are each written after a backslash
RECURSIVE JsonEscape(_)
JsonEscape(s) ==
  IF s = <<>> THEN <<>>
  ELSE (IF s[1] \in {"\"", "\\"} THEN <<"\\", s[1]>> ELSE <<s[1]>>) \o JsonEscape(Tail(s))

ChallengeBody_empty(json) == EmptyBody

\* JSON.stringify({ challenge: body.challenge }): a key whose value is
\* undefined is left out
ChallengeBody(json) ==
  IF "challenge" \in DOMAIN json
  THEN <<"{\"challenge\":\"">> \o JsonEscape(json.challenge) \o <<"\"}">>
  ELSE EmptyBody

eventIgnored_othersOnly(e) ==
  \/ e.type # "message"
  \/ e.channel_type # "im"

\* the events handleSlackEventCallback leaves unanswered
eventIgnored(e) ==
  \/ e.type # "message"
  \/ e.channel_type # "im"
  \/ ("subtype" \in DOMAIN e /\ e.subtype = "bot_message")
  \/ "user" \notin DOMAIN e
  \/ Falsy(e.user)

HandlerStores ==
  {<<>>,
   <<[email |-> <<"u", "@">>]>>,
   <<[email |-> <<"u", "@">>, slackToken |-> <<>>]>>,
   <<[slackToken |-> Authorized]>>,
   <<[slackToken |-> Authorized, statusMappings |-> <<SomeMapping>>]>>}

InitHandler ==
  /\ store \in HandlerStores
  /\ last = NoCommand
  /\ clock = Now
  /\ \E timestamp \in {undefined, NumToStr(Num(Now - 300)), NumToStr(Num(Now + 1))},
        body \in DOMAIN Payloads \cup {NotJson},
        signer \in {"slack", "other", "unsigned"} :
       /\ origin = [kind |-> "sent", timestamp |-> timestamp, body |-> body,
                    signer |-> signer, altered |-> "nothing", store |-> store]
       /\ event = MakeEvent(timestamp,
                            CASE signer = "slack" -> SignatureFor(SigningSecret, timestamp, body)
                              [] signer = "other" -> SignatureFor(OtherSecret, timestamp, body)
                              [] OTHER -> undefined,
                            body)
  /\ pc = "handler"
  /\ calls = <<>>
  /\ validated = "none"
  /\ response = NoResponse
  /\ local = NoLocal

Respond(r) ==
  /\ response' = r
  /\ pc' = "responded"

\* the exception leaves the handler: there is no response
Throw ==
  /\ pc' = "threw"
  /\ UNCHANGED response

\* the awaited call has answered
Returned(l, call) == [l EXCEPT !.returned = Append(@, call)]

SendMessage_notAwaited(message, callsSoFar, localSoFar) ==
  /\ calls' = Append(callsSoFar, "postMessage")
  /\ local' = localSoFar @@ [message |-> message]
  /\ Respond(OkResponse(EmptyBody))

\* sendMessage(message): postMessage is called and awaited
SendMessage(message, callsSoFar, localSoFar) ==
  /\ calls' = Append(callsSoFar, "postMessage")
  /\ local' = localSoFar @@ [message |-> message]
  /\ pc' = "awaitPostMessage"
  /\ UNCHANGED response

\* handler, to its first await: JSON.parse(event.body), then
\* validateSlackRequest to the timestamp check and the secret request
HandlerStart ==
  /\ pc = "handler"
  /\ UNCHANGED <<cmdVars, reqVars>>
  /\ IF event.body \notin DOMAIN Payloads
     THEN Throw /\ UNCHANGED <<calls, validated, local>>
     ELSE /\ local' = [body |-> Payloads[event.body], returned |-> <<>>]
          /\ IF validateTimestamp(clock, ToNumber(Header(event, H_Timestamp)))
             THEN /\ calls' = <<SecretCall>>
                  /\ pc' = "awaitSigningSecret"
                  /\ UNCHANGED <<validated, response>>
             ELSE /\ validated' = "false"
                  /\ Respond(InvalidResponse)
                  /\ UNCHANGED calls

\* the signing secret arrives, or its fetch fails: the rest of
\* validateSlackRequest, then the switch of handler, then
\* handleSlackEventCallback to its first await
SigningSecretFetched ==
  /\ pc = "awaitSigningSecret"
  /\ UNCHANGED <<cmdVars, reqVars>>
  /\ \E secret \in SecretOutcomes :
       LET result == validateSlackRequest(clock, event, secret).result
       IN  /\ local' = (IF secret.ok THEN Returned(local, SecretCall) ELSE local)
                         @@ [secret |-> secret]
           /\ IF result = "throws"
              THEN Throw /\ UNCHANGED <<calls, validated>>
              ELSE /\ validated' = result
                   /\ IF requestRejected(result)
                      THEN Respond(InvalidResponse) /\ UNCHANGED calls
                      ELSE IF local.body.type = "url_verification"
                      THEN Respond(OkResponse(ChallengeBody(local.body))) /\ UNCHANGED calls
                      ELSE IF local.body.type # "event_callback"
                      THEN Respond(OkResponse(EmptyBody)) /\ UNCHANGED calls
                      ELSE IF eventIgnored(local.body.event)
                      THEN Respond(OkResponse(EmptyBody)) /\ UNCHANGED calls
                      ELSE /\ calls' = Append(calls, BotTokenCall)
                           /\ pc' = "awaitBotToken"
                           /\ UNCHANGED response

\* the bot token arrives, or its fetch fails; getUserProfile is called
BotTokenFetched ==
  /\ pc = "awaitBotToken"
  /\ UNCHANGED <<cmdVars, reqVars, validated>>
  /\ \/ Throw /\ UNCHANGED <<calls, local>>
     \/ /\ calls' = Append(calls, "getUserProfile")
        /\ local' = Returned(local, BotTokenCall)
        /\ pc' = "awaitUserProfile"
        /\ UNCHANGED response

\* getUserProfile answers a profile or null, or fails
UserProfileFetched ==
  /\ pc = "awaitUserProfile"
  /\ UNCHANGED <<cmdVars, reqVars, validated>>
  /\ \/ Throw /\ UNCHANGED <<calls, local>>
     \/ SendMessage(MsgProfileRetry, calls,
                    Returned(local, "getUserProfile") @@ [userProfile |-> "null"])
     \/ /\ calls' = Append(calls, "getSettingsForUsers")
        /\ local' = Returned(local, "getUserProfile") @@ [userProfile |-> "profile"]
        /\ pc' = "awaitSettings"
        /\ UNCHANGED response

notAuthorized_onlyEmpty(userSettings) == userSettings = <<>>

\* !userSettings.length || !userSettings[0].slackToken
notAuthorized(userSettings) ==
  \/ userSettings = <<>>
  \/ ~Has(userSettings[1], "slackToken")
  \/ Falsy(userSettings[1].slackToken)

\* getSettingsForUsers answers, or fails: the authorization check, the
\* tokenizer and the dispatch, to the await of the handler or of sendMessage
SettingsFetched ==
  /\ pc = "awaitSettings"
  /\ UNCHANGED <<cmdVars, reqVars, validated>>
  /\ \/ Throw /\ UNCHANGED <<calls, local>>
     \/ LET userSettings == store
            tokens == tokenize(local.body.event.text)
            subcommand == IF tokens = <<>> THEN undefined ELSE tokens[1]
            args == IF tokens = <<>> THEN <<>> ELSE Tail(tokens)
            fetched == Returned(local, "getSettingsForUsers")
        IN  IF notAuthorized(userSettings)
            THEN SendMessage(MsgAuthorize, calls, fetched)
            ELSE IF ~InCommandHandlerMap(subcommand)
            THEN SendMessage(MsgHelp, calls, fetched)
            ELSE LET r == runCommand(subcommand, store, userSettings[1], args)
                     invoked == fetched @@ [userSettings |-> userSettings[1],
                                            subcommand |-> subcommand, args |-> args]
                 IN  IF r.threw
                     THEN Throw /\ UNCHANGED calls /\ local' = invoked
                     ELSE IF r.calls = <<>>
                     THEN SendMessage(r.message, calls, invoked)
                     ELSE /\ calls' = calls \o r.calls
                          /\ local' = invoked
                          /\ pc' = "awaitUpsert"
                          /\ UNCHANGED response

\* upsertStatusMappings or upsertDefaultStatus answers, or fails: the rest of
\* the command handler, then sendMessage
UpsertDone ==
  /\ pc = "awaitUpsert"
  /\ UNCHANGED <<last, reqVars, validated>>
  /\ \/ Throw /\ UNCHANGED <<store, calls, local>>
     \/ LET r == runCommand(local.subcommand, store, local.userSettings, local.args)
        IN  /\ store' = r.db
            /\ SendMessage(r.message, calls, Returned(local, calls[Len(calls)]))

\* postMessage answers, or fails: the handler returns its response
PostMessageDone ==
  /\ pc = "awaitPostMessage"
  /\ UNCHANGED <<cmdVars, reqVars, validated, calls>>
  /\ \/ Throw /\ UNCHANGED local
     \/ /\ Respond(OkResponse(EmptyBody))
        /\ local' = Returned(local, "postMessage")

NextHandler ==
  \/ HandlerStart
  \/ SigningSecretFetched
  \/ BotTokenFetched
  \/ UserProfileFetched
  \/ SettingsFetched
  \/ UpsertDone
  \/ PostMessageDone

SpecHandler == InitHandler /\ [][NextHandler]_vars

-----------------------------------------------------------------------------
(* Two deliveries for the same authorized user, each a set command, handled
   by two invocations of the handler whose steps interleave at the awaits.
   Both are authenticated and have their user resolved; each has called
   getSettingsForUsers.  pc, local and response hold one value for each
   request; calls logs <<request, call>>. *)

Requests == {1, 2}

ConcurrentMeetings == {V_Ab, V_ab, V_C}

ConcurrentStores ==
  {<<[slackToken |-> Authorized]>>,
   <<[slackToken |-> Authorized, statusMappings |-> <<>>]>>,
   <<[slackToken |-> Authorized, statusMappings |-> <<SomeMapping>>]>>}

\* set meeting=<meeting>
SetText(meeting) == K_set \o <<" ">> \o K_meeting \o Eq \o meeting

InitConcurrent ==
  /\ store \in ConcurrentStores
  /\ last = NoCommand
  /\ event = NoEvent
  /\ clock = 0
  /\ origin = [kind |-> "concurrent", store |-> store]
  /\ pc = [r \in Requests |-> "awaitSettings"]
  /\ calls = <<>>
  /\ validated = "true"
  /\ response = [r \in Requests |-> NoResponse]
  /\ \E meetings \in [Requests -> ConcurrentMeetings] :
       local = [r \in Requests |->
                  [body |-> [type |-> "event_callback",
                             event |-> MessageEvent(SetText(meetings[r]))]]]

\* getSettingsForUsers answers request r the settings on file, or fails: the
\* tokenizer, the dispatch and the command handler to its upsert call
SettingsFetchedBy(r) ==
  /\ pc[r] = "awaitSettings"
  /\ UNCHANGED <<cmdVars, reqVars, validated, response>>
  /\ \/ /\ pc' = [pc EXCEPT ![r] = "threw"]
        /\ UNCHANGED <<calls, local>>
     \/ LET userSettings == store
            tokens == tokenize(local[r].body.event.text)
            subcommand == tokens[1]
            args == Tail(tokens)
            ran == runCommand(subcommand, store, userSettings[1], args)
        IN  /\ ~notAuthorized(userSettings)
            /\ InCommandHandlerMap(subcommand)
            /\ calls' = calls \o [i \in 1..Len(ran.calls) |-> <<r, ran.calls[i]>>]
            /\ local' = [local EXCEPT ![r] = @ @@ [userSettings |-> userSettings[1],
                                                   subcommand |-> subcommand,
                                                   args |-> args]]
            /\ pc' = [pc EXCEPT ![r] = "awaitUpsert"]

\* the store applies the upsert of request r in one step and answers, or
\* the upsert fails: the rest of the command handler, then sendMessage
UpsertDoneBy(r) ==
  /\ pc[r] = "awaitUpsert"
  /\ UNCHANGED <<last, reqVars, validated, response>>
  /\ \/ /\ pc' = [pc EXCEPT ![r] = "threw"]
        /\ UNCHANGED <<store, calls, local>>
     \/ LET ran == runCommand(local[r].subcommand, store, local[r].userSettings,
                              local[r].args)
        IN  /\ store' = ran.db
            /\ calls' = Append(calls, <<r, "postMessage">>)
            /\ local' = [local EXCEPT ![r] = @ @@ [message |-> ran.message]]
            /\ pc' = [pc EXCEPT ![r] = "awaitPostMessage"]

\* postMessage answers request r, or fails: its handler returns
PostMessageDoneBy(r) ==
  /\ pc[r] = "awaitPostMessage"
  /\ UNCHANGED <<cmdVars, reqVars, validated, calls, local>>
  /\ \/ /\ pc' = [pc EXCEPT ![r] = "threw"]
        /\ UNCHANGED response
     \/ /\ pc' = [pc EXCEPT ![r] = "responded"]
        /\ response' = [response EXCEPT ![r] = OkResponse(EmptyBody)]

SettingsFetchedByAny == \E r \in Requests : SettingsFetchedBy(r)

UpsertDoneByAny == \E r \in Requests : UpsertDoneBy(r)

PostMessageDoneByAny == \E r \in Requests : PostMessageDoneBy(r)

NextConcurrent == SettingsFetchedByAny \/ UpsertDoneByAny \/ PostMessageDoneByAny

SpecConcurrent == InitConcurrent /\ [][NextConcurrent]_vars

-----------------------------------------------------------------------------
(* Claims about the command handlers *)

\* what a command line says for a key: the value of the last token
\* key=value, undefined for a bare key, "" when the key is not given
ArgGiven(args, key) == {i \in 1..Len(args) : split(args[i], "=")[1] = key}

ArgValue(args, key) ==
  IF ArgGiven(args, key) = {} THEN <<>>
  ELSE LET i == CHOOSE k \in ArgGiven(args, key) : \A j \in ArgGiven(args, key) : j <= k
           parts == split(args[i], "=")
       IN  IF Len(parts) = 1 THEN undefined ELSE parts[2]

NoValue(v) == v = undefined \/ Len(v) = 0

MappingsOf(userSettings) ==
  IF "statusMappings" \in DOMAIN userSettings THEN userSettings.statusMappings ELSE <<>>

EqualIgnoringCase(a, b) == toLowerCase(a) = toLowerCase(b)

NoDuplicates(statusMappings) ==
  \A i, j \in 1..Len(statusMappings) :
    i # j => ~EqualIgnoringCase(statusMappings[i].calendarText,
                                statusMappings[j].calendarText)

\* C1: no sequence of set commands leaves two mappings whose calendarText are
\* equal ignoring case, starting from absent or empty statusMappings; and set
\* meeting=Ab followed by set meeting=ab emoji=E leaves exactly one mapping,
\* for Ab, carrying emoji E.
C1_NoCaseInsensitiveDuplicates ==
  /\ NoDuplicates(MappingsOf(store[1]))
  /\ NoDuplicates(MappingsOf(last.after))
  /\ ( /\ last.cmd = "set"
       /\ last.args = <<K_meeting \o Eq \o V_ab, K_emoji \o Eq \o V_E>>
       /\ Len(MappingsOf(last.before)) = 1
       /\ MappingsOf(last.before)[1].calendarText = V_Ab )
     => /\ Len(MappingsOf(last.after)) = 1
        /\ last.after.statusMappings[1].calendarText = V_Ab
        /\ last.after.statusMappings[1].slackStatus.emoji = V_E
        /\ store[1].statusMappings = last.after.statusMappings

C1_Witness ==
  /\ last.cmd = "set"
  /\ last.args = <<K_meeting \o Eq \o V_ab, K_emoji \o Eq \o V_E>>
  /\ Len(MappingsOf(last.before)) = 1
  /\ MappingsOf(last.before)[1].calendarText = V_Ab
  /\ MappingsOf(last.before)[1].slackStatus.emoji = <<>>
  /\ Len(MappingsOf(last.after)) = 1

\* C2: a set whose meeting matches a mapping ignoring case keeps the length,
\* every calendarText and every other mapping; a set that matches none
\* appends one mapping and keeps the earlier ones.
C2_SetFrame ==
  (last.cmd = "set" /\ ~NoValue(ArgValue(last.args, K_meeting))) =>
    LET before == MappingsOf(last.before)
        after == MappingsOf(last.after)
        meeting == ArgValue(last.args, K_meeting)
        matched == {i \in 1..Len(before) :
                      EqualIgnoringCase(before[i].calendarText, meeting)}
    IN  IF matched # {}
        THEN /\ Len(after) = Len(before)
             /\ \A i \in 1..Len(before) :
                  /\ after[i].calendarText = before[i].calendarText
                  /\ i \notin matched => after[i] = before[i]
        ELSE /\ Len(after) = Len(before) + 1
             /\ SubSeq(after, 1, Len(before)) = before
             /\ after[Len(after)].calendarText = meeting

C2_Witness ==
  /\ last.cmd = "set"
  /\ ArgValue(last.args, K_meeting) = V_ab
  /\ Len(MappingsOf(last.before)) = 2
  /\ MappingsOf(last.before)[1].calendarText = V_Ab
  /\ MappingsOf(last.after)[1].calendarText = V_Ab
  /\ MappingsOf(last.after)[1].slackStatus # MappingsOf(last.before)[1].slackStatus
  /\ MappingsOf(last.after)[2] = MappingsOf(last.before)[2]

\* C3: a set without a meeting key, or whose meeting has an empty or missing
\* value, answers the guidance string, leaves the settings exactly as they
\* were (an absent statusMappings stays absent) and persists nothing.
C3_SetValidatesBeforeMutating ==
  (last.cmd = "set" /\ NoValue(ArgValue(last.args, K_meeting))) =>
    /\ last.message = MsgMustSpecifyMeeting
    /\ last.after = last.before
    /\ last.calls = <<>>

C3_Witness ==
  /\ last.cmd = "set"
  /\ last.args = <<K_emoji \o Eq \o V_E, K_meeting \o Eq>>
  /\ "statusMappings" \notin DOMAIN last.before
  /\ "statusMappings" \notin DOMAIN last.after
  /\ last.message = MsgMustSpecifyMeeting

\* the mapping a set wrote: the one matching its meeting
WrittenBy(args, statusMappings) ==
  {i \in 1..Len(statusMappings) :
     EqualIgnoringCase(statusMappings[i].calendarText, ArgValue(args, K_meeting))}

\* C4: the mapping written by set has text = message when given non-empty,
\* else meeting, and emoji = the emoji argument, or "" when emoji has no
\* value; so its text is never empty or undefined and its emoji never
\* undefined, whatever the tokens are.
C4_SetWritesTextAndEmoji ==
  (last.cmd = "set" /\ ~NoValue(ArgValue(last.args, K_meeting))) =>
    \A i \in WrittenBy(last.args, MappingsOf(last.after)) :
      LET written == last.after.statusMappings[i].slackStatus
          message == ArgValue(last.args, K_message)
          emoji == ArgValue(last.args, K_emoji)
      IN  /\ written.text = IF NoValue(message) THEN ArgValue(last.args, K_meeting)
                            ELSE message
          /\ written.emoji = IF emoji = undefined THEN <<>> ELSE emoji
          /\ ~NoValue(written.text)
          /\ written.emoji # undefined

\* C7: after remove with a meeting name no mapping has that name ignoring
\* case, the other mappings keep their order, and a confirmation is
\* answered.
C7_RemoveDeletes ==
  (last.cmd = "remove" /\ ~NoValue(ArgValue(last.args, K_meeting))) =>
    LET before == MappingsOf(last.before)
        after == MappingsOf(last.after)
        kept == {i \in 1..Len(before) :
                   ~EqualIgnoringCase(before[i].calendarText,
                                      ArgValue(last.args, K_meeting))}
    IN  /\ WrittenBy(last.args, after) = {}
        /\ Len(after) = Cardinality(kept)
        /\ \A i \in 1..Len(after) : \E k \in kept :
              /\ after[i] = before[k]
              /\ Cardinality({j \in kept : j < k}) = i - 1
        /\ last.message # <<"Not implemented">>

SameMappings(a, b) ==
  /\ ("statusMappings" \in DOMAIN a) = ("statusMappings" \in DOMAIN b)
  /\ MappingsOf(a) = MappingsOf(b)

\* C5: set-default with message and emoji both empty or absent answers the
\* guidance message, changes nothing and persists nothing; otherwise
\* defaultStatus becomes exactly {text: message, emoji: emoji} of this call
\* and upsertDefaultStatus is called once; statusMappings never changes.
C5_SetDefault ==
  last.cmd = "set-default" =>
    LET message == ArgValue(last.args, K_message)
        emoji == ArgValue(last.args, K_emoji)
    IN  /\ SameMappings(last.after, last.before)
        /\ IF NoValue(message) /\ NoValue(emoji)
           THEN /\ last.message = MsgSetDefaultGuidance
                /\ last.after = last.before
                /\ last.calls = <<>>
           ELSE /\ "defaultStatus" \in DOMAIN last.after
                /\ last.after.defaultStatus = [text |-> message, emoji |-> emoji]
                /\ last.calls = <<"upsertDefaultStatus">>

C5_Witness ==
  /\ last.cmd = "set-default"
  /\ last.args = <<K_emoji \o Eq \o V_E>>
  /\ "defaultStatus" \in DOMAIN last.before
  /\ last.before.defaultStatus = [text |-> V_M, emoji |-> <<>>]
  /\ last.after.defaultStatus = [text |-> <<>>, emoji |-> V_E]
  /\ MappingsOf(last.after) # <<>>

\* C6: after remove-default, whatever the state and the arguments were,
\* defaultStatus is null, upsertDefaultStatus was called, statusMappings is
\* as before, and running it again gives the same state and the same reply.
C6_RemoveDefault ==
  last.cmd = "remove-default" =>
    /\ "defaultStatus" \in DOMAIN last.after
    /\ last.after.defaultStatus = null
    /\ last.calls = <<"upsertDefaultStatus">>
    /\ SameMappings(last.after, last.before)
    /\ \A args \in ArgListsOver(DefaultTokens) :
         LET again == handleRemoveDefault(store, last.after, args)
         IN  /\ again.userSettings = last.after
             /\ again.db = store
             /\ again.message = last.message

C6_Witness ==
  /\ last.cmd = "remove-default"
  /\ last.args # <<>>
  /\ "defaultStatus" \in DOMAIN last.before
  /\ last.before.defaultStatus = null
  /\ last.after.defaultStatus = null

-----------------------------------------------------------------------------
(* Claims about the authenticator *)

TimestampOf(e) ==
  IF H_Timestamp \in DOMAIN e.headers THEN ToNumber(e.headers[H_Timestamp]) ELSE NaN

\* a request as Slack sends it: signed with the signing secret over a
\* timestamp within five minutes of now
SentValid ==
  /\ origin.kind = "sent"
  /\ origin.signer = "slack"
  /\ origin.timestamp \in {NumToStr(Num(Now + d)) : d \in {0 - 299, 0, 299}}

\* C9: a request whose timestamp header is missing, is no number, or is 300
\* seconds or more from now, in the past or in the future, is answered false
\* without fetching the signing secret, whatever its signature; a timestamp
\* 299 seconds from now passes.
C9_FreshnessFailsClosed ==
  pc = "validated" =>
    /\ ( \/ H_Timestamp \notin DOMAIN event.headers
         \/ TimestampOf(event).nan
         \/ clock - TimestampOf(event).val >= 300
         \/ TimestampOf(event).val - clock >= 300 )
       => (validated = "false" /\ calls = <<>>)
    /\ ( /\ SentValid
         /\ origin.altered = "nothing"
         /\ local.secret.ok )
       => validated = "true"

C9_Witness ==
  /\ pc = "validated"
  /\ origin.signer = "slack"
  /\ origin.altered = "nothing"
  /\ DOMAIN event.headers = {H_Timestamp, H_Signature}
  /\ event.headers[H_Timestamp] = NumToStr(Num(clock + 300))
  /\ event.headers[H_Signature]
       = SignatureFor(SigningSecret, NumToStr(Num(clock + 300)), event.body)
  /\ local.secret.ok
  /\ validated = "false"
  /\ calls = <<>>

\* C10: a request signed with the signing secret over a fresh timestamp is
\* accepted, and the same request with one byte of its signature header, of
\* its body or of its timestamp header changed is answered false.
C10_SignatureSoundAndComplete ==
  (pc = "validated" /\ SentValid /\ local.secret.ok) =>
    IF origin.altered = "nothing" THEN validated = "true" ELSE validated = "false"

\* the same, with a thrown exception counted as a rejection
C10_AlteredNeverAccepted ==
  (pc = "validated" /\ SentValid /\ local.secret.ok) =>
    IF origin.altered = "nothing" THEN validated = "true" ELSE validated # "true"

\* the timestamp header is a number less than five minutes from now
FreshTimestamp(e) ==
  /\ ~TimestampOf(e).nan
  /\ clock - TimestampOf(e).val < 300
  /\ TimestampOf(e).val - clock < 300

\* the signature header is absent, holds no "=", or holds after its first
\* "=" a text that is not as long as a hex digest
MalformedSignature(e) ==
  \/ H_Signature \notin DOMAIN e.headers
  \/ IndexOf(e.headers[H_Signature], "=") = 0
  \/ Len(split(e.headers[H_Signature], "=")[2]) # DigestLen

\* C11: for a fresh request whose signature header is absent, holds no "="
\* or holds a hash of another length than the computed digest,
\* validateSlackRequest answers false: it does not throw.
C11_MalformedSignatureIsMismatch ==
  ( /\ pc = "validated"
    /\ FreshTimestamp(event)
    /\ local.secret.ok
    /\ MalformedSignature(event) )
    => validated = "false"

-----------------------------------------------------------------------------
(* Claims about the handler *)

BusinessCalls ==
  {BotTokenCall, "getUserProfile", "getSettingsForUsers", "upsertStatusMappings",
   "upsertDefaultStatus", "postMessage"}

NoBusinessLogic ==
  /\ \A i \in 1..Len(calls) : calls[i] \notin BusinessCalls
  /\ store = origin.store

\* C8: no bot-token fetch, getUserProfile, getSettingsForUsers, upsert or
\* postMessage call and no change of the settings happens unless
\* validateSlackRequest has answered true; when it answers false the response
\* is 400 {"error": "Request was invalid"} and none of them ever happens.
C8_AuthenticationGatesEverything ==
  /\ validated # "true" => NoBusinessLogic
  /\ validated = "false" =>
       /\ pc = "responded"
       /\ response.statusCode = 400
       /\ response.body = <<"{\"error\":\"Request was invalid\"}">>

C8_Witness ==
  /\ validated = "false"
  /\ pc = "responded"
  /\ calls = <<SecretCall>>
  /\ origin.signer = "other"
  /\ event.body = <<"e", "1">>
  /\ store = <<[slackToken |-> Authorized]>>
  /\ response.statusCode = 400

\* the fetch of the signing secret has failed
SecretFetchFailed == "secret" \in DOMAIN local /\ ~local.secret.ok

\* C12: when the fetch of the signing secret fails for a request with a
\* fresh timestamp, the authenticator answers "not authentic", the handler
\* returns 400 with the invalid-request body, and no business logic runs.
C12_SecretFailureIsAuthFailure ==
  SecretFetchFailed =>
    /\ validated = "false"
    /\ pc = "responded"
    /\ response = InvalidResponse
    /\ NoBusinessLogic

\* C13: whatever the body and the headers of the request and whatever each
\* collaborator call does (answers, answers null, or fails), no exception
\* leaves handler, and the response it returns is 200 with a JSON body, or
\* 400 with the invalid-request body when the authentication has failed.
C13_AlwaysWellFormedResponse ==
  /\ pc # "threw"
  /\ pc = "responded" =>
       \/ /\ response.statusCode = 200
          /\ response.body \in {EmptyBody, ChallengeBody(local.body)}
       \/ /\ response = InvalidResponse
          /\ validated = "false"

\* the characters a JSON string literal stands for
RECURSIVE JsonUnescape(_)
JsonUnescape(s) ==
  IF s = <<>> THEN <<>>
  ELSE IF s[1] = "\\" /\ Len(s) >= 2 THEN <<s[2]>> \o JsonUnescape(SubSeq(s, 3, Len(s)))
  ELSE IF s[1] = "\"" THEN <<"<end of string>">>
  ELSE <<s[1]>> \o JsonUnescape(Tail(s))

\* the challenge a client reads in a response body {"challenge":"..."}
ChallengeRead(body) ==
  IF Len(body) >= 2 /\ body[1] = "{\"challenge\":\"" /\ body[Len(body)] = "\"}"
  THEN JsonUnescape(SubSeq(body, 2, Len(body) - 1))
  ELSE undefined

\* C14: of the authenticated payloads, url_verification is answered 200 with
\* a body whose challenge is the challenge of the request, another type
\* than url_verification and event_callback is answered 200 with {}, neither
\* makes a business-logic call, and only event_callback makes one.
C14_PayloadClassification ==
  /\ (validated = "true" /\ local.body.type = "url_verification") =>
       /\ pc = "responded"
       /\ response.statusCode = 200
       /\ "challenge" \in DOMAIN local.body =>
            ChallengeRead(response.body) = local.body.challenge
       /\ "challenge" \notin DOMAIN local.body => response.body = EmptyBody
       /\ NoBusinessLogic
  /\ (validated = "true" /\ local.body.type \notin {"url_verification", "event_callback"}) =>
       /\ pc = "responded"
       /\ response = OkResponse(EmptyBody)
       /\ NoBusinessLogic
  /\ ~NoBusinessLogic => local.body.type = "event_callback"

C14_Witness ==
  /\ validated = "true"
  /\ pc = "responded"
  /\ local.body = [type |-> "url_verification", challenge |-> <<"c", "\"", "\\">>]
  /\ response.statusCode = 200
  /\ response.body = <<"{\"challenge\":\"", "c", "\\", "\"", "\\", "\\", "\"}">>
  /\ calls = <<SecretCall>>

\* an event that is no direct message of a user: not a message, not in a
\* direct-message channel, sent by a bot, or without a user identifier
NotAUserMessage(e) ==
  \/ e.type # "message"
  \/ e.channel_type # "im"
  \/ ("subtype" \in DOMAIN e /\ e.subtype = "bot_message")
  \/ "user" \notin DOMAIN e
  \/ e.user = <<>>

\* C15: an authenticated event_callback whose event is not a message, is not
\* in a direct-message channel, has subtype bot_message or has no user
\* identifier is answered 200 with {} and makes no bot-token, getUserProfile,
\* getSettingsForUsers, upsert or postMessage call.
C15_IgnoredEventsTriggerNothing ==
  ( /\ validated = "true"
    /\ local.body.type = "event_callback"
    /\ NotAUserMessage(local.body.event) )
    => /\ pc = "responded"
       /\ response = OkResponse(EmptyBody)
       /\ NoBusinessLogic

C15_Witness ==
  /\ validated = "true"
  /\ local.body.type = "event_callback"
  /\ local.body.event.type = "message"
  /\ local.body.event.channel_type = "im"
  /\ "subtype" \in DOMAIN local.body.event
  /\ local.body.event.subtype = "bot_message"
  /\ local.body.event.user = User
  /\ store = <<[slackToken |-> Authorized]>>
  /\ pc = "responded"
  /\ response = OkResponse(EmptyBody)
  /\ calls = <<SecretCall>>

ProfileNull == "userProfile" \in DOMAIN local /\ local.userProfile = "null"

ProfileResolved == "userProfile" \in DOMAIN local /\ local.userProfile = "profile"

SettingsAnswered ==
  /\ "returned" \in DOMAIN local
  /\ \E i \in 1..Len(local.returned) : local.returned[i] = "getSettingsForUsers"

\* a command handler has been invoked
HandlerInvoked == "subcommand" \in DOMAIN local

\* the settings have been handed to the store, or have changed
Persisted ==
  \/ \E i \in 1..Len(calls) : calls[i] \in {"upsertStatusMappings", "upsertDefaultStatus"}
  \/ store # origin.store

\* the settings on file when the request arrived are those of a user who
\* has authorized the integration
OnFileAuthorized ==
  /\ origin.store # <<>>
  /\ "slackToken" \in DOMAIN origin.store[1]
  /\ origin.store[1].slackToken # <<>>

\* message is the one reply of the request
OnlyReply(message) ==
  /\ Cardinality({i \in 1..Len(calls) : calls[i] = "postMessage"}) = 1
  /\ local.message = message

\* C16: a command handler runs and the settings are changed or persisted
\* only when getUserProfile answered a profile and getSettingsForUsers
\* answered settings with a slackToken.  When the profile is null the one
\* reply is the retry prompt and getSettingsForUsers is not called; when the
\* settings are empty or without slackToken the one reply is the
\* authorization prompt with the install URL, whatever the text; the
\* response is 200 in both cases.
C16_CommandsOnlyForAuthorizedUser ==
  /\ (HandlerInvoked \/ Persisted) => (ProfileResolved /\ OnFileAuthorized)
  /\ ProfileNull =>
       /\ OnlyReply(MsgProfileRetry)
       /\ \A i \in 1..Len(calls) : calls[i] # "getSettingsForUsers"
       /\ pc = "responded" => response = OkResponse(EmptyBody)
  /\ (SettingsAnswered /\ ~OnFileAuthorized) =>
       /\ OnlyReply(MsgAuthorize)
       /\ \E i \in 1..Len(local.message) : local.message[i] = slackInstallUrl[1]
       /\ pc = "responded" => response = OkResponse(EmptyBody)

C16_Witness ==
  /\ pc = "responded"
  /\ ProfileResolved
  /\ SettingsAnswered
  /\ store = <<[email |-> <<"u", "@">>]>>
  /\ local.body.event.text = Texts[2]
  /\ local.message = MsgAuthorize
  /\ ~HandlerInvoked
  /\ response = OkResponse(EmptyBody)

\* the first token of a message text, undefined when it has none
FirstTokenOf(text) == IF tokenize(text) = <<>> THEN undefined ELSE tokenize(text)[1]

\* C17: when the first token of the text of an authorized user is not one
\* of show, set, remove, set-default and remove-default (the text is empty,
\* the name is cased otherwise, or it names an inherited property such as
\* constructor or toString), the one reply is the help message, no handler
\* runs, and the settings are neither changed nor persisted.
C17_DispatchExactMatch ==
  ( /\ SettingsAnswered
    /\ OnFileAuthorized
    /\ FirstTokenOf(local.body.event.text)
         \notin {K_show, K_set, K_remove, K_set_default, K_remove_default} )
    => /\ OnlyReply(MsgHelp)
       /\ ~HandlerInvoked
       /\ ~Persisted

\* set meeting="Team Sync" emoji=E
QuotedSetText == Texts[12]

\* the tokens handed to the command handler: the subcommand, then args
TokensDelivered == <<local.subcommand>> \o local.args

\* C18: a token key="quoted value" reaches the handler as one argument
\* key=value without the quote characters: no delivered token holds a quote,
\* set meeting="Team Sync" emoji=E is delivered as set with the arguments
\* meeting=Team Sync and emoji=E, and the calendarText it stores is
\* Team Sync.
C18_TokenizerUnwrapsQuotes ==
  /\ HandlerInvoked =>
       \A i \in 1..Len(TokensDelivered) :
         \A j \in 1..Len(TokensDelivered[i]) : TokensDelivered[i][j] # "\""
  /\ (HandlerInvoked /\ local.body.event.text = QuotedSetText) =>
       /\ local.subcommand = K_set
       /\ local.args = <<K_meeting \o Eq \o V_TeamSync, K_emoji \o Eq \o V_E>>
  /\ (pc = "responded" /\ HandlerInvoked /\ local.body.event.text = QuotedSetText) =>
       \E i \in 1..Len(MappingsOf(store[1])) :
         store[1].statusMappings[i].calendarText = V_TeamSync

\* the place of each collaborator call in the protocol of one request
Rank(call) ==
  CASE call = SecretCall -> 1
    [] call = BotTokenCall -> 2
    [] call = "getUserProfile" -> 3
    [] call = "getSettingsForUsers" -> 4
    [] call \in {"upsertStatusMappings", "upsertDefaultStatus"} -> 5
    [] call = "postMessage" -> 6

\* the request is a message event that is processed
Processed == \E i \in 1..Len(calls) : calls[i] = BotTokenCall

\* C19: in the handling of a processed message event each collaborator call
\* starts only after the one before it has answered, in the order signing
\* secret, bot token, getUserProfile, getSettingsForUsers, at most one
\* upsert, postMessage; the confirmation of set shows the settings that
\* upsertStatusMappings answered; and the response is returned only after
\* the one postMessage has answered.
C19_SequentialProtocol ==
  "returned" \in DOMAIN local =>
    /\ \A i, j \in 1..Len(calls) : i < j => Rank(calls[i]) < Rank(calls[j])
    /\ Len(local.returned) <= Len(calls)
    /\ \A i \in 1..Len(local.returned) : local.returned[i] = calls[i]
    /\ Len(calls) - Len(local.returned) <= 1
    /\ ( /\ "message" \in DOMAIN local
         /\ \E i \in 1..Len(local.returned) : local.returned[i] = "upsertStatusMappings" )
       => local.message
            = <<"Here's what I got: ">> \o JoinComma(serializeStatusMappings(store[1]))
    /\ (pc = "responded" /\ Processed) =>
         /\ calls[Len(calls)] = "postMessage"
         /\ local.returned = calls

C19_Witness ==
  /\ pc = "responded"
  /\ calls = <<SecretCall, BotTokenCall, "getUserProfile", "getSettingsForUsers",
               "upsertStatusMappings", "postMessage">>
  /\ local.returned = calls
  /\ local.body.event.text = Texts[2]
  /\ origin.store = <<[slackToken |-> Authorized]>>
  /\ MappingsOf(store[1]) = <<[calendarText |-> V_Ab,
                               slackStatus |-> [text |-> V_Ab, emoji |-> V_E]]>>
  /\ response = OkResponse(EmptyBody)

-----------------------------------------------------------------------------
(* Claims about concurrent deliveries *)

\* the meeting each request names
MeetingOf(r) == ArgValue(Tail(tokenize(local[r].body.event.text)), K_meeting)

\* the settings on file hold a mapping for the meeting, ignoring case
OnFile(meeting) ==
  \E i \in 1..Len(MappingsOf(store[1])) :
    EqualIgnoringCase(store[1].statusMappings[i].calendarText, meeting)

====
